---- MODULE Spec2Model ----
(***************************************************************************)
(* Verification model of the NELSVIEW DICOM hologram viewer.               *)
(*                                                                         *)
(*   - createVolumeFromSlices (frontend/src/DicomViewer1.js): the          *)
(*     volumetric point sampler, modelled as the operator SampleSlices     *)
(*     and exercised on bounded slice stacks by SpecSampler.               *)
(*   - handleFileUpload (frontend/src/DicomViewer1.js): the loading and    *)
(*     sorting of a file selection, exercised by SpecUpload.               *)
(*   - The camera framing at the end of a volume replacement, with the     *)
(*     OrbitControls gestures that precede it, exercised by SpecView.      *)
(*   - The render sessions, exercised by Spec, whose application is one of *)
(*       DicomViewer1 (frontend/src/DicomViewer1.js): file selection, the  *)
(*         view mode buttons, the 3D effect with its cleanup, and animate; *)
(*       DicomViewer with ThreeDViewer (part_000): upload and processing   *)
(*         requests, the view mode buttons, the set-up and volume-update   *)
(*         effects, the cleanup, and animate.                              *)
(*     An event handler or an effect runs to completion, as JavaScript     *)
(*     runs it; an await splits a handler into the step before and the     *)
(*     step after it.  The THREE objects of one set-up (scene, camera,     *)
(*     renderer with its canvas, controls) share one identifier.           *)
(*   - ThreeDViewer (part_000) under every sequence of volumeData props,   *)
(*     exercised by SpecThreeDViewer.                                      *)
(*   - The window resize handlers of both viewers, exercised by            *)
(*     SpecResize.                                                         *)
(*                                                                         *)
(* Numbers.  Positions are half-integers in the code (x - width/2); the    *)
(* model stores every coordinate doubled (2*x - width), which is exact.    *)
(* A colour component is color.r = byte/255 in the code; the model stores  *)
(* the byte.  Math.random() is stored in tenths.                           *)
(***************************************************************************)
EXTENDS Integers, Sequences, FiniteSets, TLC

VARIABLES
    rv_slices,    \* sampler run: the slices array read by createVolumeFromSlices
    rv_rnd,       \* sampler run: the values Math.random() returned, per examined pixel
    rv_vertices,  \* sampler run: the flat vertices array
    rv_colors,    \* sampler run: the flat colors array
    rv_pc,        \* sampler run: "ready" before the call, "done" after it returned
    app,            \* the viewer component that is the application: "DicomViewer1"
                    \* (frontend/src/DicomViewer1.js) or "DicomViewer" (part_000)
    mounted,        \* the application component is mounted
    viewMode,       \* useState('2d'): "2d" or "3d"
    slices,         \* DicomViewer1: useState([]), the sorted slice array
    pendingUploads, \* DicomViewer1: the handleFileUpload calls awaiting Promise.all
    lastStarted,    \* DicomViewer1: of the handleFileUpload calls made since none was
                    \* awaiting, the one that started last (0: none is awaiting)
    threeDRef,      \* DicomViewer1: threeDRef.current, the 3D container element
    threeScene,     \* DicomViewer1: threeScene.current (0 is null)
    threeRenderer,  \* DicomViewer1: threeRenderer.current
    threeCamera,    \* DicomViewer1: threeCamera.current
    threeControls,  \* DicomViewer1: threeControls.current
    nextId,         \* the next THREE object group to allocate: scene k, camera k,
                    \* renderer k (with its canvas) and controls k are made together
    children,       \* children[k]: scene k's children array
    cameraZ2,       \* cameraZ2[k]: camera k's position.z, doubled
    canvasParent,   \* canvasParent[k]: the DOM parent of renderer k's canvas
    frame,          \* frame[k]: the scene children renderer k drew last
    loops,          \* the animate closures scheduled with requestAnimationFrame
    installs,       \* installs[k]: volume replacements done on scene k (0, 1, 2 = more)
    raised,         \* the exception an effect raised, "none" if none
    lastAnimate,    \* the loop whose requestAnimationFrame callback ran last (0: none yet)
    files,          \* DicomViewer: files.length of useState([])
    uploadId,       \* DicomViewer: useState(null), 0 is null
    loading,        \* DicomViewer: useState(false), set while uploadFiles awaits
    processing,     \* DicomViewer: useState(false), set while processFiles awaits
    processMode,    \* DicomViewer: the viewMode the awaiting processFiles call closed
                    \* over, "none" when no call is awaiting
    resultImage,    \* DicomViewer: useState(null), TRUE when an image URL is set
    volumeData,     \* DicomViewer: useState(null), 0 is null, else an index of Volumes
    error,          \* DicomViewer: useState(null), the message or "null"
    tdvMounted,     \* ThreeDViewer is mounted (containerRef.current is its <div>)
    scene,          \* ThreeDViewer: useState(null) scene of the current render (0 is null)
    camera,         \* ThreeDViewer: useState(null) camera
    renderer,       \* ThreeDViewer: useState(null) renderer
    controls,       \* ThreeDViewer: useState(null) controls
    pendingState,   \* ThreeDViewer: the objects passed to setScene .. setControls
                    \* that no render has taken yet (0: none)
    cleanupRenderer, \* ThreeDViewer: newRenderer of the cleanup closure React holds
                     \* for the set-up effect (0: the effect returned no cleanup)
    up_files,     \* upload run: event.target.files, each with its InstanceNumber tag
    up_slices,    \* upload run: the array passed to setSlices
    up_pc,        \* upload run: "ready" before the call, "done" after it
    ov_position,  \* view run: camera.position, doubled
    ov_target,    \* view run: controls.target, the orbit centre, doubled
    ov_last,      \* view run: the last operation: "none", "orbit", "pan", "replace"
    ov_max,       \* view run: maxDimension of the last replacement (0: none yet)
    rz_session,   \* resize run: the camera and renderer of the session with what
                  \* handleResize writes (aspect, size) and must not write
    rz_surface,   \* resize run: the container's <<clientWidth, clientHeight>>, or
                  \* Null when the container ref holds no element
    rz_listening, \* resize run: handleResize is registered on window
    rz_last       \* resize run: the last operation, "resize" for a resize event

samplerVars == <<rv_slices, rv_rnd, rv_vertices, rv_colors, rv_pc>>
uploadVars == <<up_files, up_slices, up_pc>>
orbitVars == <<ov_position, ov_target, ov_last, ov_max>>
resizeVars == <<rz_session, rz_surface, rz_listening, rz_last>>
gVars == <<threeScene, threeRenderer, threeCamera, threeControls,
           scene, camera, renderer, controls, pendingState, cleanupRenderer,
           nextId, children, cameraZ2, canvasParent, frame, loops, installs, raised>>
viewer1Vars == <<slices, pendingUploads, lastStarted, threeDRef>>
dicomVars == <<files, uploadId, loading, processing, processMode, resultImage,
               volumeData, error, tdvMounted>>
viewerVars == <<app, mounted, viewMode, lastAnimate, viewer1Vars, dicomVars, gVars>>
vars == <<samplerVars, uploadVars, orbitVars, resizeVars, viewerVars>>

(***************************************************************************)
(* Bounds of the model.                                                    *)
(***************************************************************************)
MaxSlices == 2
MaxSessions == 2      \* THREE object groups allocated in one run
MaxFiles == 3         \* files of one selection in the upload runs
MaxPan == 1           \* pan gestures away from the initial orbit centre, per direction

(***************************************************************************)
(* Program constants of createVolumeFromSlices.                            *)
(***************************************************************************)
sliceHeight == 1
samplingFactor == 4
AirCutoff == -800
SoftTissueCutoff == -100
BoneCutoff == 200
LungKeepTenths == 1        \* Math.random() > 0.1 skips an air/lung sample
SoftKeepTenths == 3        \* Math.random() > 0.3 skips a soft-tissue sample
Blue == 3447003            \* 0x3498db
Red == 15158332            \* 0xe74c3c
Yellow == 15844367         \* 0xf1c40f

(***************************************************************************)
(* new THREE.Color(hex): the three components, as bytes.                   *)
(***************************************************************************)
Color(hex) == << (hex \div 65536) % 256, (hex \div 256) % 256, hex % 256 >>

(***************************************************************************)
(* The two pixel loops of createVolumeFromSlices.  acc is the pair of the  *)
(* arrays [vertices, colors] built so far.                                 *)
(***************************************************************************)
IsAirLower(pixelValue) == pixelValue < AirCutoff - 200

IsAirInclusive(pixelValue) == pixelValue <= AirCutoff

\* line 218: if (pixelValue < -800) continue;
IsAir(pixelValue) == pixelValue < AirCutoff

ClassifyInclusive(pixelValue) ==
    IF pixelValue <= SoftTissueCutoff
    THEN [color |-> Color(Blue), random |-> TRUE, keep |-> LungKeepTenths]
    ELSE IF pixelValue <= BoneCutoff
    THEN [color |-> Color(Red), random |-> TRUE, keep |-> SoftKeepTenths]
    ELSE [color |-> Color(Yellow), random |-> FALSE, keep |-> 0]

ClassifyBoneThinned(pixelValue) ==
    IF pixelValue < SoftTissueCutoff
    THEN [color |-> Color(Blue), random |-> TRUE, keep |-> LungKeepTenths]
    ELSE IF pixelValue < BoneCutoff
    THEN [color |-> Color(Red), random |-> TRUE, keep |-> SoftKeepTenths]
    ELSE [color |-> Color(Yellow), random |-> TRUE, keep |-> SoftKeepTenths]

\* lines 221-232: the if / else-if / else chain on pixelValue.  color is the
\* colour it assigns; random is whether the branch calls Math.random(); keep
\* is the bound, in tenths, above which the branch continues (skips).
Classify(pixelValue) ==
    IF pixelValue < SoftTissueCutoff
    THEN [color |-> Color(Blue), random |-> TRUE, keep |-> LungKeepTenths]
    ELSE IF pixelValue < BoneCutoff
    THEN [color |-> Color(Red), random |-> TRUE, keep |-> SoftKeepTenths]
    ELSE [color |-> Color(Yellow), random |-> FALSE, keep |-> 0]

PushNoFlip(acc, x2, y2, z2, color, skip) ==
    IF skip THEN acc
    ELSE [vertices |-> acc.vertices \o <<x2, -y2, z2>>,
          colors   |-> acc.colors \o color]

PushColorFirst(acc, x2, y2, z2, color, skip) ==
    [vertices |-> IF skip THEN acc.vertices ELSE acc.vertices \o <<x2, y2, z2>>,
     colors   |-> acc.colors \o color]

\* lines 225/229 (continue) and 235-236: vertices.push(...); colors.push(...)
Push(acc, x2, y2, z2, color, skip) ==
    IF skip THEN acc
    ELSE [vertices |-> acc.vertices \o <<x2, y2, z2>>,
          colors   |-> acc.colors \o color]

SliceZ2Shared(i, N) == -(N * sliceHeight)

\* line 207: const z = i * sliceHeight - totalHeight / 2, doubled
SliceZ2(i, N) == 2 * i * sliceHeight - N * sliceHeight

\* lines 214-236: the body of the pixel loops for pixel (x, y) of slice i of
\* N; r[<<i, y, x>>] is what Math.random() returns if this pixel calls it.
SamplePixel(image, i, N, x, y, r, acc) ==
    LET width == image.columns
        height == image.rows
        pixelIndex == y * width + x
        pixelValue == image.pixelData[pixelIndex + 1]
        z2 == SliceZ2(i, N)
        class == Classify(pixelValue)
    IN  IF IsAir(pixelValue) THEN acc
        ELSE Push(acc, 2 * x - width, -(2 * y - height), z2, class.color,
                  class.random /\ r[<<i, y, x>>] > class.keep)

RECURSIVE ColumnLoop(_, _, _, _, _, _, _)
\* line 213: for (let x = 0; x < width; x += samplingFactor)
ColumnLoop(image, i, N, y, x, r, acc) ==
    IF x < image.columns
    THEN ColumnLoop(image, i, N, y, x + samplingFactor, r,
                    SamplePixel(image, i, N, x, y, r, acc))
    ELSE acc

RECURSIVE RowLoop(_, _, _, _, _, _)
\* line 212: for (let y = 0; y < height; y += samplingFactor)
RowLoop(image, i, N, y, r, acc) ==
    IF y < image.rows
    THEN RowLoop(image, i, N, y + samplingFactor, r,
                 ColumnLoop(image, i, N, y, 0, r, acc))
    ELSE acc

RECURSIVE SliceLoop(_, _, _, _)
\* line 193: for (let i = 0; i < slices.length; i++)
SliceLoop(theSlices, i, r, acc) ==
    IF i < Len(theSlices)
    THEN SliceLoop(theSlices, i + 1, r,
                   RowLoop(theSlices[i + 1].image, i, Len(theSlices), 0, r, acc))
    ELSE acc

\* lines 185-239: the vertices and colors arrays after the loops
SampleSlices(theSlices, r) ==
    SliceLoop(theSlices, 0, r, [vertices |-> <<>>, colors |-> <<>>])

(***************************************************************************)
(* The pixels the loops examine, and those for which Math.random() is      *)
(* called: the domain of one run's random outcomes.                        *)
(***************************************************************************)
Examined(theSlices) ==
    { <<i, y, x>> \in (0 .. Len(theSlices) - 1) \X (0 .. 4) \X (0 .. 4) :
        /\ y < theSlices[i + 1].image.rows
        /\ x < theSlices[i + 1].image.columns
        /\ y % samplingFactor = 0
        /\ x % samplingFactor = 0 }

PixelAt(theSlices, p) ==
    LET image == theSlices[p[1] + 1].image
    IN  image.pixelData[p[2] * image.columns + p[3] + 1]

RandomCalls(theSlices) ==
    { p \in Examined(theSlices) :
        ~IsAir(PixelAt(theSlices, p)) /\ Classify(PixelAt(theSlices, p)).random }

RandomValues == {1, 2, 4}

(***************************************************************************)
(* The bounded inputs of the sampler runs: ramps over the six intensities  *)
(* around the three thresholds, as a 5x1 row or a 1x5 column, and the two  *)
(* uniform 4x4 slices of the specification's scenario.                     *)
(***************************************************************************)
Intensities == <<-801, -800, -101, -100, 199, 200>>

RampImage(w, h, k) ==
    [columns |-> w, rows |-> h,
     pixelData |-> [j \in 1 .. w * h |-> Intensities[((k + j - 1) % 6) + 1]]]

UniformImage(w, h, v) ==
    [columns |-> w, rows |-> h, pixelData |-> [j \in 1 .. w * h |-> v]]

Images ==
    { RampImage(5, 1, k) : k \in 0 .. 5 } \cup { RampImage(1, 5, k) : k \in 0 .. 5 }
    \cup { UniformImage(4, 4, -1000), UniformImage(4, 4, 500) }

SliceOf(image, index) == [index |-> index, instanceNumber |-> index, image |-> image]

Stacks ==
    UNION { { [j \in 1 .. n |-> SliceOf(f[j], j - 1)] : f \in [1 .. n -> Images] }
            : n \in 0 .. MaxSlices }

(***************************************************************************)
(* THREE and DOM objects shared by both viewers.  Every scene child has    *)
(* the same record shape; a light has no geometry.  position is doubled.   *)
(***************************************************************************)
Null == "null"
Container == "div"     \* the element holding the 3D canvas

Ids == 1 .. MaxSessions

\* new THREE.AmbientLight(0xffffff, 0.5)
AmbientLight ==
    [type |-> "AmbientLight", vertices |-> <<>>, colors |-> <<>>, position |-> <<0, 0, 0>>]

\* new THREE.DirectionalLight(0xffffff, 0.8); position.set(0, 1, 1)
DirectionalLight ==
    [type |-> "DirectionalLight", vertices |-> <<>>, colors |-> <<>>,
     position |-> <<0, 2, 2>>]

\* new THREE.Points(geometry, material) with the two Float32BufferAttributes
Points(vertices, colors) ==
    [type |-> "Points", vertices |-> vertices, colors |-> colors, position |-> <<0, 0, 0>>]

InitialCameraZ2 == 400     \* camera.position.z = 200

Max(a, b) == IF a >= b THEN a ELSE b

\* DicomViewer1.js line 257, part_000 line 124:
\* camera.position.z = maxDimension * 1.5, doubled
FramedZ2(maxDimension) == 3 * maxDimension

\* The state of the THREE objects, of DicomViewer1's refs and of ThreeDViewer's
\* state, as one record that the effect operators below transform.
G ==
    [threeScene |-> threeScene, threeRenderer |-> threeRenderer,
     threeCamera |-> threeCamera, threeControls |-> threeControls,
     scene |-> scene, camera |-> camera, renderer |-> renderer, controls |-> controls,
     pendingState |-> pendingState, cleanupRenderer |-> cleanupRenderer,
     nextId |-> nextId, children |-> children, cameraZ2 |-> cameraZ2,
     canvasParent |-> canvasParent, frame |-> frame, loops |-> loops,
     installs |-> installs, raised |-> raised]

SetG(g) ==
    /\ threeScene' = g.threeScene
    /\ threeRenderer' = g.threeRenderer
    /\ threeCamera' = g.threeCamera
    /\ threeControls' = g.threeControls
    /\ scene' = g.scene
    /\ camera' = g.camera
    /\ renderer' = g.renderer
    /\ controls' = g.controls
    /\ pendingState' = g.pendingState
    /\ cleanupRenderer' = g.cleanupRenderer
    /\ nextId' = g.nextId
    /\ children' = g.children
    /\ cameraZ2' = g.cameraZ2
    /\ canvasParent' = g.canvasParent
    /\ frame' = g.frame
    /\ loops' = g.loops
    /\ installs' = g.installs
    /\ raised' = g.raised

CountInstall(n) == IF n < 2 THEN n + 1 ELSE n

(***************************************************************************)
(* DicomViewer1: handleFileUpload.                                         *)
(***************************************************************************)
\* lines 47-54: the slice object built for the file at position index
LoadSlice(file, index) ==
    [index |-> index,
     instanceNumber |-> IF file.hasTag THEN file.tag ELSE index,
     image |-> file.image]

\* lines 39-56: Promise.all(uploadedFiles.map(...))
LoadedSlices(uploadedFiles) ==
    [j \in 1 .. Len(uploadedFiles) |-> LoadSlice(uploadedFiles[j], j - 1)]

InsertSliceBeforeEqual(sorted, s) ==
    LET n == Cardinality({ j \in 1 .. Len(sorted) :
                             sorted[j].instanceNumber < s.instanceNumber })
    IN  SubSeq(sorted, 1, n) \o <<s>> \o SubSeq(sorted, n + 1, Len(sorted))

\* One step of the stable sort: s goes after the entries that are not greater.
InsertSlice(sorted, s) ==
    LET n == Cardinality({ j \in 1 .. Len(sorted) :
                             sorted[j].instanceNumber <= s.instanceNumber })
    IN  SubSeq(sorted, 1, n) \o <<s>> \o SubSeq(sorted, n + 1, Len(sorted))

RECURSIVE SortSlices(_)
\* line 59: loadedSlices.sort((a, b) => a.instanceNumber - b.instanceNumber)
SortSlices(loaded) ==
    IF loaded = <<>> THEN <<>>
    ELSE InsertSlice(SortSlices(SubSeq(loaded, 1, Len(loaded) - 1)), loaded[Len(loaded)])

\* The file selections of the viewer runs: one Bone pixel; and two files in
\* reverse instance order, one soft-tissue pixel and one air pixel.
ViewerUploads ==
    << << [image |-> RampImage(1, 1, 5), hasTag |-> FALSE, tag |-> 0] >>,
       << [image |-> RampImage(1, 1, 3), hasTag |-> TRUE, tag |-> 2],
          [image |-> RampImage(1, 1, 0), hasTag |-> TRUE, tag |-> 1] >> >>

(***************************************************************************)
(* DicomViewer1: the 3D effect (lines 96-157) and createVolumeFromSlices.  *)
(***************************************************************************)
ClearVolumeNone(kids) == kids

ClearVolumeAll(kids) == SubSeq(kids, 1, 0)

\* lines 180-182: while (children.length > 2) remove(children[2])
ClearVolume(kids) == IF Len(kids) > 2 THEN SubSeq(kids, 1, 2) ELSE kids

\* lines 176-259; r holds the values Math.random() returns
createVolumeFromSlices(g, theSlices, r) ==
    IF g.threeScene = 0 \/ Len(theSlices) = 0 THEN g
    ELSE
        LET out == SampleSlices(theSlices, r)
            pointCloud == Points(out.vertices, out.colors)
            totalHeight == Len(theSlices) * sliceHeight
            maxDimension == Max(Max(theSlices[1].image.columns, theSlices[1].image.rows),
                                totalHeight)
        IN  [g EXCEPT
               !.children[g.threeScene] = ClearVolume(@) \o <<pointCloud>>,
               !.cameraZ2[g.threeCamera] = FramedZ2(maxDimension),
               !.installs[g.threeScene] = CountInstall(@)]

\* an animate that also removes the volume from the scene it draws
Animate1Clearing(g) ==
    IF g.threeRenderer # 0 /\ g.threeScene # 0 /\ g.threeCamera # 0
    THEN [g EXCEPT !.children[g.threeScene] = ClearVolume(@),
                   !.frame[g.threeRenderer] = ClearVolume(g.children[g.threeScene])]
    ELSE g

\* lines 129-139, one call of DicomViewer1's animate: controls.update(), then
\* render when renderer, scene and camera are all set
Animate1(g) ==
    IF g.threeRenderer # 0 /\ g.threeScene # 0 /\ g.threeCamera # 0
    THEN [g EXCEPT !.frame[g.threeRenderer] = g.children[g.threeScene]]
    ELSE g

\* lines 98-142: scene set-up; webgl is whether new THREE.WebGLRenderer
\* succeeds (it throws where no WebGL context can be created)
Setup3D(g, ref, webgl) ==
    LET k == g.nextId
        made == [g EXCEPT !.nextId = k + 1,
                          !.threeScene = k,
                          !.threeCamera = k,
                          !.cameraZ2[k] = InitialCameraZ2]
    IN  IF ~webgl THEN [made EXCEPT !.raised = "WebGLError"]
        ELSE Animate1([made EXCEPT
                         !.threeRenderer = k,
                         !.canvasParent[k] = ref,
                         !.threeControls = k,
                         !.children[k] = <<AmbientLight, DirectionalLight>>,
                         !.loops = @ \cup {k}])

\* lines 148-156: the effect's cleanup; closureViewMode is the viewMode of the
\* render that created it, ref is threeDRef.current when it runs.
\* removeChild throws NotFoundError when the canvas is not a child of ref.
Cleanup3D(g, closureViewMode, ref) ==
    IF closureViewMode = "2d" /\ g.threeRenderer # 0 /\ ref # Null
    THEN IF g.canvasParent[g.threeRenderer] # ref
         THEN [g EXCEPT !.raised = "NotFoundError"]
         ELSE [g EXCEPT !.canvasParent[g.threeRenderer] = Null,
                        !.threeScene = 0,
                        !.threeRenderer = 0,
                        !.threeCamera = 0,
                        !.threeControls = 0]
    ELSE g

\* the effect's body without the test of line 98: every run sets a scene up
Body3DAlwaysSetsUp(g, mode, theSlices, ref, webgl, r) ==
    IF mode = "3d" /\ ref # Null /\ Len(theSlices) > 0
    THEN LET g1 == Setup3D(g, ref, webgl)
         IN  IF g1.raised # "none" THEN g1
             ELSE createVolumeFromSlices(g1, theSlices, r)
    ELSE g

\* lines 97-146: the effect's body
Body3D(g, mode, theSlices, ref, webgl, r) ==
    IF mode = "3d" /\ ref # Null /\ Len(theSlices) > 0
    THEN LET g1 == IF g.threeScene = 0 THEN Setup3D(g, ref, webgl) ELSE g
         IN  IF g1.raised # "none" THEN g1
             ELSE createVolumeFromSlices(g1, theSlices, r)
    ELSE g

\* The 3D effect re-running because viewMode or slices changed: the cleanup
\* of the previous run (which closed over oldMode), then the new body.
Effect3D(g, oldMode, mode, theSlices, ref, webgl, r) ==
    LET g1 == Cleanup3D(g, oldMode, ref)
    IN  IF g1.raised # "none" THEN g1
        ELSE Body3D(g1, mode, theSlices, ref, webgl, r)

\* a commit that gives the 3D view a new container element each time the
\* view is entered while a canvas is still attached to the previous one
RefAfterCommitNewElement(mode, theSlices) ==
    IF Len(theSlices) > 0 /\ mode = "3d"
    THEN IF viewMode = "2d" /\ threeRenderer # 0
            /\ canvasParent[threeRenderer] = Container
         THEN "div2"
         ELSE Container
    ELSE Null

\* The element the JSX at lines 405-426 gives threeDRef: the 2D and the 3D
\* <div> are the same element type in the same position, so React keeps one
\* DOM element and only moves the ref between viewerRef and threeDRef.
RefAfterCommit(mode, theSlices) ==
    IF Len(theSlices) > 0 /\ mode = "3d" THEN Container ELSE Null

\* Whether the body will run the scene set-up, which allocates objects.
NeedsSetup(g, oldMode, mode, theSlices, ref) ==
    /\ mode = "3d" /\ ref # Null /\ Len(theSlices) > 0
    /\ Cleanup3D(g, oldMode, ref).threeScene = 0

\* A re-render of DicomViewer1 with a new viewMode or slices value: commit,
\* then the 3D effect.  An exception in the effect unmounts the application.
Render1(mode, theSlices) ==
    LET ref == RefAfterCommit(mode, theSlices)
        setup == NeedsSetup(G, viewMode, mode, theSlices, ref)
    IN  /\ setup => nextId <= MaxSessions
        /\ \E webgl \in (IF setup THEN BOOLEAN ELSE {TRUE}) :
           \E r \in [RandomCalls(theSlices) -> RandomValues] :
             LET g2 == Effect3D(G, viewMode, mode, theSlices, ref, webgl, r)
             IN  /\ SetG(g2)
                 /\ mounted' = (g2.raised = "none")
                 /\ threeDRef' = IF g2.raised = "none" THEN ref ELSE Null
        /\ viewMode' = mode
        /\ slices' = theSlices

\* lines 29-35: a file selection starts loading (an empty selection returns)
handleFileUpload(u) ==
    /\ app = "DicomViewer1" /\ mounted
    /\ u \notin pendingUploads
    /\ pendingUploads' = pendingUploads \cup {u}
    /\ lastStarted' = u
    /\ UNCHANGED <<app, mounted, viewMode, lastAnimate, slices, threeDRef, dicomVars,
                   gVars,
                   samplerVars, uploadVars, orbitVars,
                   resizeVars>>

\* lines 58-62: the loads resolved; setSlices(sortedSlices) re-renders
UploadLoaded(u) ==
    /\ app = "DicomViewer1" /\ mounted
    /\ u \in pendingUploads
    /\ pendingUploads' = pendingUploads \ {u}
    /\ lastStarted' = IF pendingUploads = {u} THEN 0 ELSE lastStarted
    /\ Render1(viewMode, SortSlices(LoadedSlices(ViewerUploads[u])))
    /\ UNCHANGED <<app, lastAnimate, dicomVars,
                   samplerVars, uploadVars, orbitVars,
                   resizeVars>>

\* lines 63-66: a load rejected; or the loads settle after the unmount, when
\* the state setters do nothing
UploadDropped(u) ==
    /\ app = "DicomViewer1"
    /\ u \in pendingUploads
    /\ pendingUploads' = pendingUploads \ {u}
    /\ lastStarted' = IF pendingUploads = {u} THEN 0 ELSE lastStarted
    /\ UNCHANGED <<app, mounted, viewMode, lastAnimate, slices, threeDRef, dicomVars,
                   gVars,
                   samplerVars, uploadVars, orbitVars,
                   resizeVars>>

\* lines 295 and 305: the view mode buttons (pressing the active one changes
\* no state, so nothing re-renders)
setViewMode1(mode) ==
    /\ app = "DicomViewer1" /\ mounted
    /\ mode # viewMode
    /\ Render1(mode, slices)
    /\ UNCHANGED <<app, pendingUploads, lastStarted, lastAnimate, dicomVars,
                   samplerVars, uploadVars, orbitVars,
                   resizeVars>>

\* DicomViewer1 unmounts: the last cleanup runs; threeDRef.current is, at that
\* time, either already cleared by React or still the element.
Unmount1 ==
    /\ app = "DicomViewer1" /\ mounted
    /\ \E ref \in {Null, threeDRef} :
         LET g2 == Cleanup3D(G, viewMode, ref)
         IN  SetG(g2)
    /\ mounted' = FALSE
    /\ threeDRef' = Null
    /\ UNCHANGED <<app, viewMode, slices, pendingUploads, lastStarted, lastAnimate,
                   dicomVars,
                   samplerVars, uploadVars, orbitVars,
                   resizeVars>>

\* lines 129-139: the host dispatches loop k's requestAnimationFrame callback,
\* which schedules itself again and runs animate
AnimateFrame1(k) ==
    /\ app = "DicomViewer1"
    /\ k \in loops
    /\ SetG(Animate1(G))
    /\ lastAnimate' = k
    /\ UNCHANGED <<app, mounted, viewMode, viewer1Vars, dicomVars,
                   samplerVars, uploadVars, orbitVars,
                   resizeVars>>

(***************************************************************************)
(* part_000: ThreeDViewer (lines 6-153).                                   *)
(***************************************************************************)
\* The volume_data objects the processing service returns in the viewer
\* runs: a two-point cloud, a cloud with no points, and a three-point cloud
\* around another centre.  Colour components are held as bytes, point
\* coordinates as sent (they are doubled on use).
Volumes ==
    << [points |-> << <<0, 0, 0>>, <<2, 4, 6>> >>,
        colors |-> << <<255, 0, 0>>, <<0, 0, 255>> >>,
        dimensions |-> <<4, 6, 8>>],
       [points |-> << >>, colors |-> << >>, dimensions |-> <<4, 4, 2>>],
       [points |-> << <<-3, 1, 0>>, <<5, 1, -2>>, <<1, 7, 4>> >>,
        colors |-> << <<255, 0, 0>>, <<0, 255, 0>>, <<0, 0, 255>> >>,
        dimensions |-> <<10, 6, 6>>] >>

RECURSIVE Flatten(_, _)
\* lines 88-95: the forEach pushing three components per point; scale is 2
\* for coordinates (held doubled) and 1 for colour bytes
Flatten(triples, scale) ==
    IF triples = <<>> THEN <<>>
    ELSE << scale * triples[1][1], scale * triples[1][2], scale * triples[1][3] >>
         \o Flatten(Tail(triples), scale)

BoxCenterFirst(points) ==
    << 2 * points[1][1], 2 * points[1][2], 2 * points[1][3] >>

\* lines 114-115: new THREE.Box3().setFromObject(pointCloud).getCenter(), doubled:
\* twice the midpoint of the least and greatest coordinate on each axis
BoxCenter2(points) ==
    LET lo(a) == CHOOSE m \in { p[a] : p \in { points[j] : j \in DOMAIN points } } :
                     \A p \in { points[j] : j \in DOMAIN points } : m <= p[a]
        hi(a) == CHOOSE m \in { p[a] : p \in { points[j] : j \in DOMAIN points } } :
                     \A p \in { points[j] : j \in DOMAIN points } : m >= p[a]
    IN  << lo(1) + hi(1), lo(2) + hi(2), lo(3) + hi(3) >>

\* lines 78-79: scene.children.filter(child => light)
FilterLights(kids) ==
    SelectSeq(kids, LAMBDA c : c.type = "AmbientLight" \/ c.type = "DirectionalLight")

\* lines 51-61, one call of the animate closed over scene, camera, renderer k
AnimateTDV(g, k) == [g EXCEPT !.frame[k] = g.children[k]]

\* lines 14-71: the set-up effect; ref is containerRef.current, vd the prop
SetupEffect(g, ref, vd, webgl) ==
    IF ref = Null \/ vd = 0 THEN [g EXCEPT !.cleanupRenderer = 0]
    ELSE
        LET k == g.nextId
            made == [g EXCEPT !.nextId = k + 1, !.cameraZ2[k] = InitialCameraZ2,
                              !.cleanupRenderer = 0]
        IN  IF ~webgl THEN [made EXCEPT !.raised = "WebGLError"]
            ELSE AnimateTDV([made EXCEPT
                               !.canvasParent[k] = ref,
                               !.children[k] = <<AmbientLight, DirectionalLight>>,
                               !.pendingState = k,
                               !.loops = @ \cup {k},
                               !.cleanupRenderer = k], k)

\* lines 66-70: the set-up effect's cleanup, closed over newRenderer;
\* ref is containerRef.current when it runs
SetupCleanup(g, ref) ==
    IF ref # Null /\ g.cleanupRenderer # 0
    THEN IF g.canvasParent[g.cleanupRenderer] # ref
         THEN [g EXCEPT !.raised = "NotFoundError"]
         ELSE [g EXCEPT !.canvasParent[g.cleanupRenderer] = Null]
    ELSE g

\* lines 74-129: the volume-update effect, reading the scene, camera and
\* controls state of the render it belongs to
UpdateEffect(g, vd) ==
    IF g.scene = 0 \/ vd = 0 THEN g
    ELSE IF Len(Volumes[vd].points) = 0 THEN g
    ELSE
        LET volume == Volumes[vd]
            center2 == BoxCenter2(volume.points)
            pointCloud ==
                [Points(Flatten(volume.points, 2), Flatten(volume.colors, 1))
                   EXCEPT !.position = << -center2[1], -center2[2], -center2[3] >>]
            maxDimension == Max(Max(volume.dimensions[1], volume.dimensions[2]),
                                volume.dimensions[3])
        IN  [g EXCEPT
               !.children[g.scene] = FilterLights(@) \o <<pointCloud>>,
               !.cameraZ2[g.camera] = FramedZ2(maxDimension),
               !.installs[g.scene] = CountInstall(@)]

\* ThreeDViewer mounts with prop vd: commit (the ref is set), then the set-up
\* effect, then the volume-update effect of the same render (scene is null)
MountViewer(g, vd, webgl) ==
    LET g1 == SetupEffect(g, Container, vd, webgl)
    IN  IF g1.raised # "none" THEN g1 ELSE UpdateEffect(g1, vd)

\* ThreeDViewer unmounts: its state is dropped and the cleanup runs with ref,
\* the value containerRef.current has at that time
UnmountViewer(g, ref) ==
    [SetupCleanup(g, ref) EXCEPT !.scene = 0, !.camera = 0, !.renderer = 0,
                                 !.controls = 0, !.pendingState = 0,
                                 !.cleanupRenderer = 0]

\* The set-up effect re-running because the prop changed on a mounted viewer:
\* cleanup, set-up, then the volume-update effect with the state of this render
RepropViewer(g, vd, webgl) ==
    LET g1 == SetupCleanup(g, Container)
        g2 == IF g1.raised # "none" THEN g1 ELSE SetupEffect(g1, Container, vd, webgl)
    IN  IF g2.raised # "none" THEN g2 ELSE UpdateEffect(g2, vd)

\* The re-render that setScene, setCamera, setRenderer and setControls (lines
\* 45-48) asked for: the state takes the new objects and the volume-update
\* effect, whose dependencies changed, runs
RenderViewer(g, vd) ==
    UpdateEffect([g EXCEPT !.scene = g.pendingState, !.camera = g.pendingState,
                           !.renderer = g.pendingState, !.controls = g.pendingState,
                           !.pendingState = 0], vd)

(***************************************************************************)
(* part_000: DicomViewer (lines 156-433).                                  *)
(***************************************************************************)
\* line 421: ThreeDViewer is rendered when viewMode === '3d' && volumeData
Shows(mode, vd) == mode = "3d" /\ vd # 0

\* A re-render of DicomViewer in which viewMode and volumeData take the given
\* values: ThreeDViewer mounts, unmounts, gets a new prop or stays.
\* An exception in an effect unmounts the application.
RenderDicomViewer(mode, vd) ==
    LET was == tdvMounted
        now == Shows(mode, vd)
        allocates == now /\ (~was \/ vd # volumeData)
    IN  /\ allocates => nextId <= MaxSessions
        /\ \E webgl \in (IF allocates THEN BOOLEAN ELSE {TRUE}) :
           \E ref \in (IF was /\ ~now THEN {Null, Container} ELSE {Container}) :
             LET g2 == IF was /\ ~now THEN UnmountViewer(G, ref)
                       ELSE IF ~was /\ now THEN MountViewer(G, vd, webgl)
                       ELSE IF was /\ now /\ vd # volumeData
                            THEN RepropViewer(G, vd, webgl)
                       ELSE G
                 ok == g2.raised = "none"
                 g3 == IF ok THEN g2 ELSE UnmountViewer(g2, Null)
             IN  /\ SetG(g3)
                 /\ mounted' = ok
                 /\ tdvMounted' = (ok /\ now)
        /\ viewMode' = mode
        /\ volumeData' = vd

\* lines 170-180
handleFileChange ==
    /\ app = "DicomViewer" /\ mounted
    /\ files' = 1
    /\ uploadId' = 0
    /\ resultImage' = FALSE
    /\ error' = Null
    /\ RenderDicomViewer(viewMode, 0)
    /\ UNCHANGED <<app, loading, processing, processMode, lastAnimate, viewer1Vars,
                   samplerVars, uploadVars, orbitVars,
                   resizeVars>>

\* lines 182-200: the Upload button (enabled when not loading and files are
\* selected) up to the fetch
uploadFiles ==
    /\ app = "DicomViewer" /\ mounted
    /\ ~loading /\ files > 0
    /\ loading' = TRUE
    /\ error' = Null
    /\ UNCHANGED <<app, mounted, viewMode, files, uploadId, processing, processMode,
                   resultImage, volumeData, tdvMounted, viewer1Vars, lastAnimate, gVars,
                   samplerVars, uploadVars, orbitVars,
                   resizeVars>>

\* a catch block that records nothing
SettledErrorDropped(outcome, message) == error

\* lines 210-212 and 266-268: the catch block's setError(message) when the
\* request failed; nothing writes error when it succeeded
SettledError(outcome, message) ==
    IF outcome = "ok" THEN error ELSE message

\* lines 202-215: the upload request settles
UploadSettled(outcome) ==
    /\ app = "DicomViewer" /\ mounted
    /\ loading
    /\ uploadId' = IF outcome = "ok" THEN 1 ELSE uploadId
    /\ error' = SettledError(outcome, "Error uploading files")
    /\ loading' = FALSE
    /\ UNCHANGED <<app, mounted, viewMode, files, processing, processMode, resultImage,
                   volumeData, tdvMounted, viewer1Vars, lastAnimate, gVars,
                   samplerVars, uploadVars, orbitVars,
                   resizeVars>>

\* lines 218-244: the Process button (shown when uploadId is set, enabled
\* when not processing) up to the fetch; the request keeps this render's viewMode
processFiles ==
    /\ app = "DicomViewer" /\ mounted
    /\ uploadId # 0 /\ ~processing
    /\ processing' = TRUE
    /\ processMode' = viewMode
    /\ error' = Null
    /\ resultImage' = FALSE
    /\ RenderDicomViewer(viewMode, 0)
    /\ UNCHANGED <<app, files, uploadId, loading, lastAnimate, viewer1Vars,
                   samplerVars, uploadVars, orbitVars,
                   resizeVars>>

\* lines 246-272: the processing request settles.  outcome is "network" (fetch
\* or json() rejects), "notok" (!response.ok), "nodata" (no images / no
\* volume_data) or "ok"; vd is the volume_data of an "ok" 3D answer
ProcessSettled(outcome, vd) ==
    /\ app = "DicomViewer" /\ mounted
    /\ processing
    /\ processing' = FALSE
    /\ processMode' = "none"
    /\ error' = SettledError(outcome, "Error processing files")
    /\ IF outcome = "ok"
       THEN IF processMode = "2d"
            THEN resultImage' = TRUE /\ RenderDicomViewer(viewMode, volumeData)
            ELSE UNCHANGED resultImage /\ RenderDicomViewer(viewMode, vd)
       ELSE /\ UNCHANGED resultImage
            /\ RenderDicomViewer(viewMode, volumeData)
    /\ UNCHANGED <<app, files, uploadId, loading, lastAnimate, viewer1Vars,
                   samplerVars, uploadVars, orbitVars,
                   resizeVars>>

\* lines 323-350: the view mode buttons, shown when uploadId is set
ViewModeButton(mode) ==
    /\ app = "DicomViewer" /\ mounted
    /\ uploadId # 0
    /\ resultImage' = FALSE
    /\ RenderDicomViewer(mode, 0)
    /\ UNCHANGED <<app, files, uploadId, loading, processing, processMode, error,
                   lastAnimate, viewer1Vars,
                   samplerVars, uploadVars, orbitVars,
                   resizeVars>>

\* The application renders ThreeDViewer: DicomViewer does (line 421), and so
\* does the host of the ThreeDViewer runs, which passes it volumeData values.
HostsThreeDViewer == app \in {"DicomViewer", "ThreeDViewer"}

\* ThreeDViewer re-renders with the state set at lines 45-48
ViewerStateRender ==
    /\ HostsThreeDViewer /\ mounted /\ tdvMounted
    /\ pendingState # 0
    /\ SetG(RenderViewer(G, volumeData))
    /\ UNCHANGED <<app, mounted, viewMode, files, uploadId, loading, processing,
                   processMode, resultImage, volumeData, error, tdvMounted, lastAnimate,
                   viewer1Vars,
                   samplerVars, uploadVars, orbitVars,
                   resizeVars>>

\* DicomViewer unmounts, and ThreeDViewer with it
UnmountDicomViewer ==
    /\ HostsThreeDViewer /\ mounted
    /\ \E ref \in (IF tdvMounted THEN {Null, Container} ELSE {Null}) :
         SetG(IF tdvMounted THEN UnmountViewer(G, ref) ELSE G)
    /\ mounted' = FALSE
    /\ tdvMounted' = FALSE
    /\ UNCHANGED <<app, viewMode, files, uploadId, loading, processing, processMode,
                   resultImage, volumeData, error, lastAnimate, viewer1Vars,
                   samplerVars, uploadVars, orbitVars,
                   resizeVars>>

\* lines 51-61: the host dispatches loop k's requestAnimationFrame callback
AnimateFrameTDV(k) ==
    /\ HostsThreeDViewer
    /\ k \in loops
    /\ SetG(AnimateTDV(G, k))
    /\ lastAnimate' = k
    /\ UNCHANGED <<app, mounted, viewMode, files, uploadId, loading, processing,
                   processMode, resultImage, volumeData, error, tdvMounted,
                   viewer1Vars,
                   samplerVars, uploadVars, orbitVars,
                   resizeVars>>

(***************************************************************************)
(* The viewer specification.                                               *)
(***************************************************************************)
ThreeInit ==
    /\ nextId = 1
    /\ children = [k \in Ids |-> <<>>]
    /\ cameraZ2 = [k \in Ids |-> 0]
    /\ canvasParent = [k \in Ids |-> Null]
    /\ frame = [k \in Ids |-> <<>>]
    /\ loops = {}
    /\ installs = [k \in Ids |-> 0]
    /\ raised = "none"
    /\ lastAnimate = 0

\* DicomViewer1, lines 9-27: the useState and useRef initial values
Viewer1Init ==
    /\ slices = <<>>
    /\ pendingUploads = {}
    /\ lastStarted = 0
    /\ threeDRef = Null
    /\ threeScene = 0
    /\ threeRenderer = 0
    /\ threeCamera = 0
    /\ threeControls = 0

\* part_000, lines 7-11 and 157-165: the useState and useRef initial values
DicomViewerInit ==
    /\ files = 0
    /\ uploadId = 0
    /\ loading = FALSE
    /\ processing = FALSE
    /\ processMode = "none"
    /\ resultImage = FALSE
    /\ volumeData = 0
    /\ error = Null
    /\ tdvMounted = FALSE
    /\ scene = 0
    /\ camera = 0
    /\ renderer = 0
    /\ controls = 0
    /\ pendingState = 0
    /\ cleanupRenderer = 0

SamplerIdle ==
    /\ rv_slices = <<>>
    /\ rv_rnd = <<>>
    /\ rv_vertices = <<>>
    /\ rv_colors = <<>>
    /\ rv_pc = "idle"

UploadIdle ==
    /\ up_files = <<>>
    /\ up_slices = <<>>
    /\ up_pc = "idle"

OrbitIdle ==
    /\ ov_position = <<0, 0, 0>>
    /\ ov_target = <<0, 0, 0>>
    /\ ov_last = "idle"
    /\ ov_max = 0

ResizeIdle ==
    /\ rz_session = [camera |-> 0, renderer |-> 0]
    /\ rz_surface = Null
    /\ rz_listening = FALSE
    /\ rz_last = "idle"

ViewerIdle ==
    /\ app = "none"
    /\ mounted = FALSE
    /\ viewMode = "2d"
    /\ Viewer1Init
    /\ DicomViewerInit
    /\ ThreeInit

Init ==
    /\ app \in {"DicomViewer1", "DicomViewer"}
    /\ mounted = TRUE
    /\ viewMode = "2d"
    /\ Viewer1Init
    /\ DicomViewerInit
    /\ ThreeInit
    /\ SamplerIdle
    /\ UploadIdle
    /\ OrbitIdle
    /\ ResizeIdle

Next ==
    \/ \E u \in DOMAIN ViewerUploads : handleFileUpload(u)
    \/ \E u \in DOMAIN ViewerUploads : UploadLoaded(u)
    \/ \E u \in DOMAIN ViewerUploads : UploadDropped(u)
    \/ \E mode \in {"2d", "3d"} : setViewMode1(mode)
    \/ Unmount1
    \/ \E k \in Ids : AnimateFrame1(k)
    \/ handleFileChange
    \/ uploadFiles
    \/ \E outcome \in {"ok", "network", "notok"} : UploadSettled(outcome)
    \/ processFiles
    \/ \E outcome \in {"ok", "network", "notok", "nodata"} :
         \E vd \in DOMAIN Volumes : ProcessSettled(outcome, vd)
    \/ \E mode \in {"2d", "3d"} : ViewModeButton(mode)
    \/ ViewerStateRender
    \/ UnmountDicomViewer
    \/ \E k \in Ids : AnimateFrameTDV(k)

Spec == Init /\ [][Next]_vars

(***************************************************************************)
(* SpecSampler: one call of the sampling loops on each bounded stack,      *)
(* under every outcome of the random draws.                                *)
(***************************************************************************)
SamplerInit ==
    /\ rv_slices \in Stacks
    /\ rv_rnd = <<>>
    /\ rv_vertices = <<>>
    /\ rv_colors = <<>>
    /\ rv_pc = "ready"
    /\ ViewerIdle
    /\ UploadIdle
    /\ OrbitIdle
    /\ ResizeIdle

\* lines 176-243 on a set-up scene: the return of line 177 when there is no
\* slice, else the loops; the function has no throw statement
Reconstruct ==
    /\ rv_pc = "ready"
    /\ IF Len(rv_slices) = 0
       THEN UNCHANGED <<rv_rnd, rv_vertices, rv_colors>>
       ELSE \E r \in [RandomCalls(rv_slices) -> RandomValues] :
              LET out == SampleSlices(rv_slices, r)
              IN  /\ rv_rnd' = r
                  /\ rv_vertices' = out.vertices
                  /\ rv_colors' = out.colors
    /\ rv_pc' = "done"
    /\ UNCHANGED <<rv_slices, uploadVars, orbitVars, viewerVars, resizeVars>>

SamplerNext == Reconstruct

SpecSampler == SamplerInit /\ [][SamplerNext]_vars

(***************************************************************************)
(* SpecUpload: one call of handleFileUpload on each bounded selection of   *)
(* files whose images load.  A file either has no InstanceNumber           *)
(* (x00200013) string, or one that parseInt reads as 0, 1 or 2.            *)
(***************************************************************************)
FileKinds ==
    { [image |-> RampImage(1, 1, 5), hasTag |-> FALSE, tag |-> 0] }
    \cup { [image |-> RampImage(1, 1, 5), hasTag |-> TRUE, tag |-> t] : t \in 0 .. 2 }

Selections == UNION { [1 .. n -> FileKinds] : n \in 0 .. MaxFiles }

UploadInit ==
    /\ up_files \in Selections
    /\ up_slices = <<>>
    /\ up_pc = "ready"
    /\ SamplerIdle
    /\ OrbitIdle
    /\ ResizeIdle
    /\ ViewerIdle

\* lines 29-62: an empty selection returns at line 32; otherwise the files
\* are loaded, sorted and passed to setSlices
LoadAndSort ==
    /\ up_pc = "ready"
    /\ up_slices' = IF Len(up_files) = 0 THEN up_slices
                    ELSE SortSlices(LoadedSlices(up_files))
    /\ up_pc' = "done"
    /\ UNCHANGED <<up_files, samplerVars, orbitVars, viewerVars, resizeVars>>

UploadNext == LoadAndSort

SpecUpload == UploadInit /\ [][UploadNext]_vars

(***************************************************************************)
(* SpecView: the camera and the OrbitControls of one set-up session under  *)
(* user gestures and volume replacements.  The camera starts at            *)
(* (0, 0, 200) and orbits the target, which starts at the origin.  A       *)
(* gesture is taken with its damped motion completed.  After every         *)
(* controls.update() the camera looks at the target, so its orientation is *)
(* the direction of position - target.                                     *)
(***************************************************************************)
\* The maxDimension values of the replacements of the viewer runs.
MaxDimensions ==
    { Max(Max(Volumes[vd].dimensions[1], Volumes[vd].dimensions[2]),
          Volumes[vd].dimensions[3]) : vd \in DOMAIN Volumes }
    \cup { Max(Max(ViewerUploads[u][1].image.columns, ViewerUploads[u][1].image.rows),
               Len(ViewerUploads[u])) : u \in DOMAIN ViewerUploads }

\* OrbitControls.update() with no gesture pending: the offset from the target
\* is read from the position and the position is set to target + offset
ControlsUpdate(position, target) ==
    LET offset == [a \in 1 .. 3 |-> position[a] - target[a]]
    IN  [a \in 1 .. 3 |-> target[a] + offset[a]]

ViewInit ==
    /\ ov_position = <<0, 0, InitialCameraZ2>>
    /\ ov_target = <<0, 0, 0>>
    /\ ov_last = "none"
    /\ ov_max = 0
    /\ SamplerIdle
    /\ UploadIdle
    /\ ResizeIdle
    /\ ViewerIdle

\* A left-button drag: the camera turns a quarter of a circle about the
\* vertical axis through the target, to the left (dir = 1) or right (dir = -1)
Orbit(dir) ==
    /\ ov_position' = << ov_target[1] + dir * (ov_position[3] - ov_target[3]),
                         ov_position[2],
                         ov_target[3] - dir * (ov_position[1] - ov_target[1]) >>
    /\ ov_last' = "orbit"
    /\ UNCHANGED <<ov_target, ov_max, samplerVars, uploadVars, viewerVars, resizeVars>>

\* A right-button drag straight up or down: target and camera move together
\* by one unit along the camera's up axis
Pan(dir) ==
    /\ ov_target[2] + 2 * dir \in (-2 * MaxPan) .. (2 * MaxPan)
    /\ ov_target' = [ov_target EXCEPT ![2] = @ + 2 * dir]
    /\ ov_position' = [ov_position EXCEPT ![2] = @ + 2 * dir]
    /\ ov_last' = "pan"
    /\ UNCHANGED <<ov_max, samplerVars, uploadVars, viewerVars, resizeVars>>

\* DicomViewer1.js lines 256-258, part_000 lines 119-128: the end of a
\* volume replacement with the given maxDimension
ReplaceView(maxDimension) ==
    /\ ov_position' = ControlsUpdate([ov_position EXCEPT ![3] = FramedZ2(maxDimension)],
                                     ov_target)
    /\ ov_max' = maxDimension
    /\ ov_last' = "replace"
    /\ UNCHANGED <<ov_target, samplerVars, uploadVars, viewerVars, resizeVars>>

ViewNext ==
    \/ \E dir \in {-1, 1} : Orbit(dir)
    \/ \E dir \in {-1, 1} : Pan(dir)
    \/ \E maxDimension \in MaxDimensions : ReplaceView(maxDimension)

SpecView == ViewInit /\ [][ViewNext]_vars

(***************************************************************************)
(* Reading a viewer run: the clouds of a scene graph, the clouds a whole    *)
(* replacement can install, and the sessions whose teardown has run.       *)
(***************************************************************************)
CloudsOf(kids) == SelectSeq(kids, LAMBDA c : c.type = "Points")

HasLight(kids, type) == \E j \in DOMAIN kids : kids[j].type = type

\* The slice arrays setSlices can receive in the viewer runs.
SortedUploads == { SortSlices(LoadedSlices(ViewerUploads[u])) : u \in DOMAIN ViewerUploads }

\* The point clouds one whole call of createVolumeFromSlices builds.
SampledClouds ==
    UNION { { Points(SampleSlices(s, r).vertices, SampleSlices(s, r).colors) :
                r \in [RandomCalls(s) -> RandomValues] } : s \in SortedUploads }

\* c is a point cloud one whole run of the volume-update effect builds: all
\* the points of a volume, three coordinates and three colour components each.
ServedCloud(c) ==
    \E vd \in DOMAIN Volumes :
        /\ Len(c.vertices) = 3 * Len(Volumes[vd].points)
        /\ Len(c.colors) = 3 * Len(Volumes[vd].points)
        /\ \A j \in DOMAIN Volumes[vd].points : \A a \in 1 .. 3 :
             /\ c.vertices[3 * (j - 1) + a] = 2 * Volumes[vd].points[j][a]
             /\ c.colors[3 * (j - 1) + a] = Volumes[vd].colors[j][a]

\* Session k was set up (its loop was started) and the component owning it has
\* since been unmounted without an exception.
TornDown(k) ==
    /\ k \in loops
    /\ raised = "none"
    /\ \/ ~mounted
       \/ app = "DicomViewer" /\ cleanupRenderer # k

\* Session k has been disposed: its owner was unmounted, or the cleanup has
\* detached its canvas.
Disposed(k) ==
    /\ k \in loops
    /\ \/ ~mounted
       \/ app = "DicomViewer" /\ cleanupRenderer # k
       \/ app = "DicomViewer1" /\ canvasParent[k] = Null /\ threeRenderer # k

(***************************************************************************)
(* C1.  After one or more volume replacements on a set-up session, the     *)
(* scene holds exactly one point cloud and both lights seeded at set-up,   *)
(* the ambient and the directional one.                                    *)
(***************************************************************************)
C1_OneCloudBothLights ==
    \A k \in Ids :
        installs[k] >= 1 =>
            /\ Len(CloudsOf(children[k])) = 1
            /\ Len(children[k]) = 3
            /\ HasLight(children[k], "AmbientLight")
            /\ HasLight(children[k], "DirectionalLight")

\* Two replacements were done on one scene.
C1_Witness ==
    \E k \in Ids : installs[k] = 2 /\ Len(CloudsOf(children[k])) = 1

\* One replacement was done by ThreeDViewer's volume-update effect.
C1_WitnessViewer ==
    /\ app = "DicomViewer"
    /\ \E k \in Ids : installs[k] = 1 /\ Len(CloudsOf(children[k])) = 1

(***************************************************************************)
(* C2.  As claimed: once a session has been disposed, no further tick of   *)
(* its animate loop executes.  A tick of loop k is seen where lastAnimate  *)
(* becomes k.                                                              *)
(***************************************************************************)
C2_NoTickAfterDisposal ==
    [][ \A k \in Ids : (Disposed(k) /\ lastAnimate # k) => lastAnimate' # k ]_vars

\* A disposed session whose loop ticked, and rendered, after the disposal.
C2_Witness ==
    \E k \in Ids : Disposed(k) /\ lastAnimate = k

(***************************************************************************)
(* C3.  Replacement is atomic for the frame loop: what a renderer drew at  *)
(* its last tick holds at most one point cloud, and that cloud is one a    *)
(* whole replacement built, never a part of one.                           *)
(***************************************************************************)
C3_AtomicReplacement ==
    \A k \in Ids :
        /\ Len(CloudsOf(frame[k])) <= 1
        /\ \A j \in DOMAIN CloudsOf(frame[k]) :
             IF app = "DicomViewer1"
             THEN CloudsOf(frame[k])[j] \in SampledClouds
             ELSE ServedCloud(CloudsOf(frame[k])[j])
        /\ HasLight(frame[k], "AmbientLight") = HasLight(frame[k], "DirectionalLight")

\* A frame still shows the old cloud while the scene already holds the new one.
C3_Witness ==
    \E k \in Ids :
        /\ threeRenderer = k
        /\ installs[threeScene] = 2
        /\ Len(CloudsOf(frame[k])) = 1
        /\ CloudsOf(frame[k]) # CloudsOf(children[threeScene])

(***************************************************************************)
(* C4.  As claimed: after the 2D button or a file selection, volumeData is *)
(* null until a 3D request started after that event succeeds.  A 3D        *)
(* request starts only in 3D mode with an upload id, and every way back to *)
(* 2D mode or to no upload id is such an event, so the claim says that     *)
(* volumeData is null whenever the mode is 2D or there is no upload id.    *)
(***************************************************************************)
C4_DiscardedUntilNewRequest ==
    (viewMode = "2d" \/ uploadId = 0) => volumeData = 0

\* The 2D button was pressed while a 3D request is in flight.
C4_Witness ==
    /\ app = "DicomViewer"
    /\ processing
    /\ processMode = "3d"
    /\ viewMode = "2d"
    /\ volumeData = 0

(***************************************************************************)
(* C5.  As claimed: teardown never raises, and once a session's teardown   *)
(* has run its canvas is detached from the container.                      *)
(***************************************************************************)
C5_SafeDisposal ==
    /\ raised # "NotFoundError"
    /\ \A k \in Ids : TornDown(k) => canvasParent[k] = Null

\* The half of C5 that holds: no teardown raises.
C5_NeverRaises == raised # "NotFoundError"

\* Teardown ran on a session that was never set up.
C5_Witness ==
    /\ ~mounted
    /\ raised = "none"
    /\ nextId = 1

(***************************************************************************)
(* Reading a sampler run back: the points of the output and the pixel     *)
(* each one was read from, stated without the operators of the model.     *)
(***************************************************************************)
NPoints == Len(rv_vertices) \div 3

Vertex(k) == << rv_vertices[3 * k - 2], rv_vertices[3 * k - 1], rv_vertices[3 * k] >>

ColorTriple(k) == << rv_colors[3 * k - 2], rv_colors[3 * k - 1], rv_colors[3 * k] >>

\* The pixel <<i, y, x>> whose position is Vertex(k).
SourceOf(k) ==
    LET i == (Vertex(k)[3] + Len(rv_slices)) \div 2
        image == rv_slices[i + 1].image
    IN  << i, (image.rows - Vertex(k)[2]) \div 2, (Vertex(k)[1] + image.columns) \div 2 >>

\* The pixels at multiples of the stride 4 in both directions.
StridePixels ==
    { p \in (0 .. Len(rv_slices) - 1) \X {0, 4} \X {0, 4} :
        /\ p[2] < rv_slices[p[1] + 1].image.rows
        /\ p[3] < rv_slices[p[1] + 1].image.columns }

Intensity(p) == PixelAt(rv_slices, p)

BlueTriple == <<52, 152, 219>>
RedTriple == <<231, 76, 60>>
YellowTriple == <<241, 196, 15>>

ClassTriple(v) ==
    IF v < -100 THEN BlueTriple ELSE IF v < 200 THEN RedTriple ELSE YellowTriple

\* Every draw came out low enough to keep the sample: "always keep".
AllKept == \A p \in DOMAIN rv_rnd : rv_rnd[p] <= 1

\* p precedes q in slice order, then y ascending, then x ascending.
Before(p, q) ==
    \/ p[1] < q[1]
    \/ p[1] = q[1] /\ p[2] < q[2]
    \/ p[1] = q[1] /\ p[2] = q[2] /\ p[3] < q[3]

\* The stride pixels of intensity >= -800, and the rank of one among them.
Qualifying == { p \in StridePixels : Intensity(p) >= -800 }

RankOf(p) == Cardinality({ q \in Qualifying : Before(q, p) }) + 1

\* The specification's scenario: two 4x4 slices, all -1000 then all 500.
ScenarioStack ==
    << SliceOf(UniformImage(4, 4, -1000), 0), SliceOf(UniformImage(4, 4, 500), 1) >>

(***************************************************************************)
(* C6.  No emitted point originates from a pixel whose intensity is below  *)
(* the air cutoff -800, whatever the random retention draws were.          *)
(***************************************************************************)
C6_NoAirPoint ==
    rv_pc = "done" =>
        \A k \in 1 .. NPoints :
            /\ SourceOf(k) \in StridePixels
            /\ Intensity(SourceOf(k)) >= -800

C6_Witness ==
    /\ rv_pc = "done"
    /\ NPoints > 0
    /\ \E p \in StridePixels : Intensity(p) = -801
    /\ \E p \in StridePixels : Intensity(p) = -800 /\ \E k \in 1 .. NPoints : SourceOf(k) = p

(***************************************************************************)
(* C7.  The output has as many colour triples as points, three components  *)
(* each, and the k-th colour is the colour of the pixel the k-th point     *)
(* was read from, for every outcome of the random draws.                   *)
(***************************************************************************)
C7_ColorsParallelPoints ==
    rv_pc = "done" =>
        /\ Len(rv_colors) = Len(rv_vertices)
        /\ Len(rv_vertices) = 3 * NPoints
        /\ \A k \in 1 .. NPoints :
             ColorTriple(k) = ClassTriple(Intensity(SourceOf(k)))

C7_Witness ==
    /\ rv_pc = "done"
    /\ NPoints >= 2
    /\ NPoints < Cardinality(Qualifying)
    /\ \E j, k \in 1 .. NPoints : ColorTriple(j) # ColorTriple(k)

(***************************************************************************)
(* C8.  As claimed: under "always keep" the output is exactly one point    *)
(* per stride pixel of intensity >= -800, in slice, y, x order, and the    *)
(* scenario stack (all -1000, then all 500, 4x4) yields 0 points from      *)
(* slice 0 and 16 Bone points from slice 1 that share one z.               *)
(***************************************************************************)
C8_Reference ==
    (rv_pc = "done" /\ AllKept) =>
        /\ NPoints = Cardinality(Qualifying)
        /\ Len(rv_vertices) = 3 * NPoints
        /\ Len(rv_colors) = 3 * NPoints
        /\ \A p \in Qualifying :
             /\ SourceOf(RankOf(p)) = p
             /\ ColorTriple(RankOf(p)) = ClassTriple(Intensity(p))

C8_Original ==
    /\ C8_Reference
    /\ (rv_pc = "done" /\ rv_slices = ScenarioStack) =>
         /\ NPoints = 16
         /\ \A k \in 1 .. NPoints :
              /\ SourceOf(k)[1] = 1
              /\ ColorTriple(k) = YellowTriple
              /\ Vertex(k)[3] = Vertex(1)[3]

(***************************************************************************)
(* C8, amended.  Under "always keep" the output is exactly one point per   *)
(* pixel at multiples of the fixed stride 4 with intensity >= -800, in     *)
(* slice, y, x order; the scenario stack yields 0 points from slice 0 and  *)
(* 1 Bone point (pixel (0,0)) from slice 1.                                *)
(***************************************************************************)
C8_Amended ==
    /\ C8_Reference
    /\ (rv_pc = "done" /\ rv_slices = ScenarioStack) =>
         /\ NPoints = 1
         /\ SourceOf(1) = <<1, 0, 0>>
         /\ ColorTriple(1) = YellowTriple

C8_Witness ==
    /\ rv_pc = "done"
    /\ AllKept
    /\ Cardinality(DOMAIN rv_rnd) >= 2
    /\ NPoints >= 3
    /\ \E p \in Qualifying : Intensity(p) = -800

(***************************************************************************)
(* C9.  Every emitted point carries the colour of the class of its source  *)
(* intensity v: blue for -800 <= v < -100, red for -100 <= v < 200,        *)
(* yellow for v >= 200; -800, -100 and 200 fall in the higher class.       *)
(***************************************************************************)
C9_ColorByThreshold ==
    rv_pc = "done" =>
        \A k \in 1 .. NPoints :
            LET v == Intensity(SourceOf(k))
            IN  /\ (-800 <= v /\ v < -100) => ColorTriple(k) = <<52, 152, 219>>
                /\ (-100 <= v /\ v < 200) => ColorTriple(k) = <<231, 76, 60>>
                /\ v >= 200 => ColorTriple(k) = <<241, 196, 15>>

C9_Witness ==
    /\ rv_pc = "done"
    /\ \E k \in 1 .. NPoints : Intensity(SourceOf(k)) = -100 /\ ColorTriple(k) = RedTriple
    /\ \E k \in 1 .. NPoints : Intensity(SourceOf(k)) = 200 /\ ColorTriple(k) = YellowTriple
    /\ \E k \in 1 .. NPoints : Intensity(SourceOf(k)) = -800 /\ ColorTriple(k) = BlueTriple

(***************************************************************************)
(* C10.  Bone is always kept: every stride pixel of intensity >= 200       *)
(* yields exactly one point, whatever the random draws; a stride pixel of  *)
(* intensity >= -800 that yields none is below 200.                        *)
(***************************************************************************)
C10_BoneAlwaysKept ==
    rv_pc = "done" =>
        \A p \in StridePixels :
            LET n == Cardinality({ k \in 1 .. NPoints : SourceOf(k) = p })
            IN  /\ Intensity(p) >= 200 => n = 1
                /\ (Intensity(p) >= -800 /\ n = 0) => Intensity(p) < 200

C10_Witness ==
    /\ rv_pc = "done"
    /\ \E p \in StridePixels : Intensity(p) = 200
    /\ \E p \in Qualifying : \A k \in 1 .. NPoints : SourceOf(k) # p
    /\ \A p \in DOMAIN rv_rnd : rv_rnd[p] = 4

(***************************************************************************)
(* The samples a run retained, read from the input and the random draws:   *)
(* a stride pixel of intensity >= -800 that is Bone, or whose draw was at  *)
(* most 0.1 (below -100) or at most 0.3 (below 200).                       *)
(***************************************************************************)
Retained ==
    { p \in Qualifying :
        \/ Intensity(p) >= 200
        \/ Intensity(p) < -100 /\ rv_rnd[p] <= 1
        \/ Intensity(p) >= -100 /\ Intensity(p) < 200 /\ rv_rnd[p] <= 3 }

\* The place of a retained sample in slice, y, x order.
RetainedRank(p) == Cardinality({ q \in Retained : Before(q, p) }) + 1

(***************************************************************************)
(* C11.  The retained sample read at (x, y) of a width x height slice at   *)
(* position i of N is emitted at (x - width/2, -(y - height/2), i - N/2)   *)
(* -- here doubled: (2x - width, -(2y - height), 2i - N).                  *)
(***************************************************************************)
C11_EmittedPosition ==
    rv_pc = "done" =>
        /\ NPoints = Cardinality(Retained)
        /\ \A p \in Retained :
             Vertex(RetainedRank(p)) =
                 << 2 * p[3] - rv_slices[p[1] + 1].image.columns,
                    -(2 * p[2] - rv_slices[p[1] + 1].image.rows),
                    2 * p[1] - Len(rv_slices) >>

\* A run that retained a sample off the first column, one off the first row,
\* and one of the second slice.
C11_Witness ==
    /\ rv_pc = "done"
    /\ \E p \in Retained : p[3] = 4
    /\ \E p \in Retained : p[2] = 4
    /\ \E p \in Retained : p[1] = 1

(***************************************************************************)
(* C12.  For a stack of depth N every emitted z lies in [-N/2, N/2]        *)
(* (doubled: [-N, N]) and samples of different slices have different z.    *)
(***************************************************************************)
C12_DepthRange ==
    rv_pc = "done" =>
        /\ \A k \in 1 .. NPoints :
             /\ Vertex(k)[3] >= -Len(rv_slices)
             /\ Vertex(k)[3] <= Len(rv_slices)
        /\ NPoints = Cardinality(Retained)
        /\ \A p, q \in Retained :
             p[1] # q[1] => Vertex(RetainedRank(p))[3] # Vertex(RetainedRank(q))[3]

\* A run that retained samples of both slices of a two-slice stack.
C12_Witness ==
    /\ rv_pc = "done"
    /\ Len(rv_slices) = 2
    /\ \E p, q \in Retained : p[1] = 0 /\ q[1] = 1

(***************************************************************************)
(* C13.  The slice stack of an upload is a permutation of the loaded       *)
(* slices, ascending by instanceNumber, where a file without an instance   *)
(* number takes its arrival index; equal instanceNumbers keep arrival      *)
(* order.                                                                  *)
(***************************************************************************)
\* The instanceNumber of the file that arrived at index j (0-based).
ArrivalNumber(j) == IF up_files[j + 1].hasTag THEN up_files[j + 1].tag ELSE j

C13_SortedStack ==
    (up_pc = "done" /\ Len(up_files) > 0) =>
        /\ Len(up_slices) = Len(up_files)
        /\ { up_slices[k].index : k \in DOMAIN up_slices } = 0 .. Len(up_files) - 1
        /\ \A k \in DOMAIN up_slices :
             /\ up_slices[k].instanceNumber = ArrivalNumber(up_slices[k].index)
             /\ up_slices[k].image = up_files[up_slices[k].index + 1].image
        /\ \A j, k \in DOMAIN up_slices :
             j < k =>
                 \/ up_slices[j].instanceNumber < up_slices[k].instanceNumber
                 \/ /\ up_slices[j].instanceNumber = up_slices[k].instanceNumber
                    /\ up_slices[j].index < up_slices[k].index

\* An upload that was reordered, in which a file without an instance number
\* ties with a file that has one.
C13_Witness ==
    /\ up_pc = "done"
    /\ \E k \in DOMAIN up_slices : up_slices[k].index # k - 1
    /\ \E j, k \in DOMAIN up_slices :
         /\ j < k
         /\ up_slices[j].instanceNumber = up_slices[k].instanceNumber
         /\ up_files[up_slices[j].index + 1].hasTag # up_files[up_slices[k].index + 1].hasTag

(***************************************************************************)
(* C14.  As claimed: reconstruction of zero slices ends with               *)
(* EmptyStackError instead of returning, and builds no point cloud.        *)
(***************************************************************************)
C14_EmptyStackFails ==
    (Len(rv_slices) = 0 /\ rv_pc \notin {"idle", "ready"}) =>
        /\ rv_pc = "EmptyStackError"
        /\ NPoints = 0

\* The call on zero slices returned, with no point built.
C14_Witness ==
    /\ Len(rv_slices) = 0
    /\ rv_pc = "done"
    /\ NPoints = 0

(***************************************************************************)
(* C15.  As claimed: reconstruction of a stack whose slices disagree on    *)
(* width or height ends with DimensionMismatchError and emits no point.    *)
(***************************************************************************)
Mismatched(stack) ==
    \E j, k \in DOMAIN stack :
        \/ stack[j].image.columns # stack[k].image.columns
        \/ stack[j].image.rows # stack[k].image.rows

C15_DimensionMismatchFails ==
    (Mismatched(rv_slices) /\ rv_pc \notin {"idle", "ready"}) =>
        /\ rv_pc = "DimensionMismatchError"
        /\ NPoints = 0

\* The call on a 5x1 and a 1x5 slice returned a cloud with points of both.
C15_Witness ==
    /\ Mismatched(rv_slices)
    /\ rv_pc = "done"
    /\ \E p, q \in Retained : p[1] = 0 /\ q[1] = 1

(***************************************************************************)
(* C16.  As claimed: a replacement by a point cloud of zero points is a    *)
(* normal replacement: no error, no earlier points left in the scene, both *)
(* lights present, and the camera framed from the new cloud's dimensions.  *)
(* For DicomViewer1 the cloud is that of the slices state, in 3D mode; for *)
(* ThreeDViewer it is the volumeData prop once the volume-update effect    *)
(* has run with the scene set.                                             *)
(***************************************************************************)
MaxOf3(d) == Max(Max(d[1], d[2]), d[3])

C16_EmptyCloudReplaces ==
    /\ (/\ app = "DicomViewer1" /\ mounted /\ viewMode = "3d" /\ threeScene # 0
        /\ installs[threeScene] >= 1
        /\ \A j \in DOMAIN CloudsOf(children[threeScene]) :
             CloudsOf(children[threeScene])[j].vertices = <<>>)
       => /\ Len(CloudsOf(children[threeScene])) = 1
          /\ HasLight(children[threeScene], "AmbientLight")
          /\ HasLight(children[threeScene], "DirectionalLight")
          /\ cameraZ2[threeCamera] =
               3 * MaxOf3(<<slices[1].image.columns, slices[1].image.rows, Len(slices)>>)
    /\ (/\ app = "DicomViewer" /\ raised = "none" /\ tdvMounted /\ scene # 0
        /\ volumeData # 0 /\ Volumes[volumeData].points = <<>>)
       => /\ \A j \in DOMAIN CloudsOf(children[scene]) :
               CloudsOf(children[scene])[j].vertices = <<>>
          /\ HasLight(children[scene], "AmbientLight")
          /\ HasLight(children[scene], "DirectionalLight")
          /\ cameraZ2[camera] = 3 * MaxOf3(Volumes[volumeData].dimensions)

\* In DicomViewer1 an empty cloud has replaced an earlier cloud.
C16_Witness ==
    /\ app = "DicomViewer1" /\ mounted /\ viewMode = "3d"
    /\ threeScene # 0
    /\ installs[threeScene] = 2
    /\ Len(CloudsOf(children[threeScene])) = 1
    /\ CloudsOf(children[threeScene])[1].vertices = <<>>

(***************************************************************************)
(* C19.  In ThreeDViewer an installed non-empty point cloud is translated  *)
(* so that the centre of its bounding box is at the origin: on each axis   *)
(* the least and the greatest world coordinate are opposite.               *)
(***************************************************************************)
\* The doubled coordinates of cloud c on axis a, before translation.
AxisValues(c, a) == { c.vertices[j] : j \in { n \in DOMAIN c.vertices : n % 3 = a % 3 } }

Least(S) == CHOOSE m \in S : \A v \in S : m <= v

Greatest(S) == CHOOSE m \in S : \A v \in S : m >= v

C19_CloudCentred ==
    app = "DicomViewer" =>
        \A k \in Ids : \A j \in DOMAIN CloudsOf(children[k]) :
            LET c == CloudsOf(children[k])[j]
            IN  c.vertices # <<>> =>
                    \A a \in 1 .. 3 :
                        (Least(AxisValues(c, a)) + c.position[a])
                        + (Greatest(AxisValues(c, a)) + c.position[a]) = 0

\* A cloud whose bounding box was not centred, installed and moved.
C19_Witness ==
    /\ app = "DicomViewer"
    /\ \E k \in Ids : \E j \in DOMAIN CloudsOf(children[k]) :
         /\ CloudsOf(children[k])[j].vertices # <<>>
         /\ CloudsOf(children[k])[j].position # <<0, 0, 0>>
         /\ Len(CloudsOf(children[k])[j].vertices) = 9

(***************************************************************************)
(* C20.  As claimed: a replacement requested on a session with no scene    *)
(* set up raises; so ThreeDViewer is never mounted with a volume, without  *)
(* a scene and without an exception.                                       *)
(***************************************************************************)
C20_NotReadyFailsLoudly ==
    ~(/\ app = "DicomViewer"
      /\ tdvMounted
      /\ volumeData # 0
      /\ scene = 0
      /\ raised = "none")

\* The replacement that returned silently at mount was done by a later run
\* of the effect.
C20_Witness ==
    /\ app = "DicomViewer"
    /\ tdvMounted
    /\ scene # 0
    /\ installs[scene] = 1

(***************************************************************************)
(* Reading a view run: the offset from the orbit target to the camera.     *)
(***************************************************************************)
OffsetOf(position, target) == [a \in 1 .. 3 |-> position[a] - target[a]]

\* u and v point the same way: their cross product is zero and their dot
\* product is positive.
SameDirection(u, v) ==
    /\ u[2] * v[3] - u[3] * v[2] = 0
    /\ u[3] * v[1] - u[1] * v[3] = 0
    /\ u[1] * v[2] - u[2] * v[1] = 0
    /\ u[1] * v[1] + u[2] * v[2] + u[3] * v[3] > 0

SquaredLength(u) == u[1] * u[1] + u[2] * u[2] + u[3] * u[3]

(***************************************************************************)
(* C17.  As claimed: after a volume replacement the camera's distance from *)
(* the orbit target, along its view axis, is maxDimension * 1.5 (doubled:  *)
(* 3 * maxDimension).                                                      *)
(***************************************************************************)
C17_FramedDistance ==
    ov_last = "replace" =>
        SquaredLength(OffsetOf(ov_position, ov_target)) = (3 * ov_max) * (3 * ov_max)

\* A replacement on a view that was panned but not orbited.
C17_Witness ==
    /\ ov_last = "replace"
    /\ ov_target # <<0, 0, 0>>
    /\ OffsetOf(ov_position, ov_target) = <<0, 0, 3 * ov_max>>

\* What holds in the viewer runs, where no gesture is made: the z coordinate
\* of the camera of the current session is maxDimension * 1.5.
C17_FramedZ ==
    /\ (/\ app = "DicomViewer1" /\ mounted /\ viewMode = "3d" /\ threeScene # 0
        /\ installs[threeScene] >= 1)
       => cameraZ2[threeCamera] =
            3 * Max(Max(slices[1].image.columns, slices[1].image.rows), Len(slices))
    /\ (/\ app = "DicomViewer" /\ tdvMounted /\ scene # 0 /\ installs[scene] >= 1)
       => cameraZ2[camera] =
            3 * Max(Max(Volumes[volumeData].dimensions[1],
                        Volumes[volumeData].dimensions[2]),
                    Volumes[volumeData].dimensions[3])

(***************************************************************************)
(* C18.  As claimed: a volume replacement leaves the direction from the    *)
(* orbit target to the camera and the orbit target as they were; only the  *)
(* distance changes.                                                       *)
(***************************************************************************)
C18_ViewKept ==
    [][ ov_last' = "replace" =>
          /\ ov_target' = ov_target
          /\ SameDirection(OffsetOf(ov_position, ov_target),
                           OffsetOf(ov_position', ov_target')) ]_vars

\* A replacement after which the camera is off the axis it started on.
C18_Witness ==
    /\ ov_last = "replace"
    /\ OffsetOf(ov_position, ov_target)[1] # 0

(***************************************************************************)
(* SpecResize: the window resize handler of one render session             *)
(* (DicomViewer1.js lines 160-173, part_000 lines 132-145).  The session   *)
(* is set up on the container, its volume is replaced, the window is       *)
(* resized, the container ref comes and goes with the view mode, and the   *)
(* session is torn down or the component unmounted.  camera.aspect is the  *)
(* quotient clientWidth / clientHeight, stored as a fraction in lowest     *)
(* terms; the container has a minimal height, so clientHeight is positive. *)
(***************************************************************************)
\* The <<clientWidth, clientHeight>> values the container takes.
SurfaceSizes == { <<800, 400>>, <<400, 400>>, <<600, 400>>, <<1200, 600>> }

RECURSIVE Gcd(_, _)
Gcd(a, b) == IF b = 0 THEN a ELSE Gcd(b, a % b)

\* clientWidth / clientHeight
Ratio(size) ==
    LET d == Gcd(size[1], size[2]) IN <<size[1] \div d, size[2] \div d>>

\* handleResize without its guard, for a session whose container is gone:
\* reading clientWidth of null raises
handleResizeUnguarded(session, surface) ==
    IF surface = Null \/ session.camera = 0 \/ session.renderer = 0
    THEN [session EXCEPT !.raised = "TypeError"]
    ELSE [session EXCEPT !.aspect = Ratio(surface), !.size = surface]

\* DicomViewer1.js lines 161-167, part_000 lines 133-139: nothing unless the
\* camera, the renderer and the container are there; otherwise camera.aspect,
\* updateProjectionMatrix() and renderer.setSize() from the container
handleResize(session, surface) ==
    IF session.camera # 0 /\ session.renderer # 0 /\ surface # Null
    THEN [session EXCEPT !.aspect = Ratio(surface), !.size = surface]
    ELSE session

NoSession ==
    [camera |-> 0, renderer |-> 0, aspect |-> <<0, 0>>, size |-> <<0, 0>>,
     children |-> <<>>, cameraZ2 |-> 0, raised |-> "none"]

\* the component is mounted: the resize effect registered its listener, the
\* container is displayed, no session is set up yet
ResizeInit ==
    /\ rz_session = NoSession
    /\ rz_surface \in SurfaceSizes
    /\ rz_listening = TRUE
    /\ rz_last = "mount"
    /\ SamplerIdle
    /\ UploadIdle
    /\ OrbitIdle
    /\ ViewerIdle

\* DicomViewer1.js lines 98-126, part_000 lines 18-44: the camera with the
\* container's aspect at z = 200, the renderer with the container's size,
\* the two lights
SessionSetUp ==
    /\ rz_listening
    /\ rz_surface # Null
    /\ rz_session.camera = 0
    /\ rz_session' = [camera |-> 1, renderer |-> 1, aspect |-> Ratio(rz_surface),
                      size |-> rz_surface,
                      children |-> <<AmbientLight, DirectionalLight>>,
                      cameraZ2 |-> InitialCameraZ2, raised |-> "none"]
    /\ rz_last' = "setup"
    /\ UNCHANGED <<rz_surface, rz_listening, samplerVars, uploadVars, orbitVars, viewerVars>>

\* DicomViewer1.js lines 246-258, part_000 lines 116-128: the cloud is added
\* and the camera framed for maxDimension
VolumeReplaced(maxDimension) ==
    /\ rz_session.camera # 0
    /\ rz_session' = [rz_session EXCEPT
                        !.children = <<AmbientLight, DirectionalLight,
                                       Points(<<maxDimension>>, <<>>)>>,
                        !.cameraZ2 = FramedZ2(maxDimension)]
    /\ rz_last' = "replace"
    /\ UNCHANGED <<rz_surface, rz_listening, samplerVars, uploadVars, orbitVars, viewerVars>>

\* The window takes a new size (or keeps its size), the displayed container
\* follows, and the browser dispatches the resize event to the listener.
WindowResized(size) ==
    /\ rz_surface' = IF rz_surface = Null THEN Null ELSE size
    /\ rz_session' = IF rz_listening THEN handleResize(rz_session, rz_surface')
                     ELSE rz_session
    /\ rz_last' = "resize"
    /\ UNCHANGED <<rz_listening, samplerVars, uploadVars, orbitVars, viewerVars>>

\* DicomViewer1.js lines 413-425: in the 2D view threeDRef.current is null
SurfaceDetached ==
    /\ rz_listening
    /\ rz_surface # Null
    /\ rz_surface' = Null
    /\ rz_last' = "detach"
    /\ UNCHANGED <<rz_session, rz_listening, samplerVars, uploadVars, orbitVars, viewerVars>>

\* back in the 3D view the ref holds the container again
SurfaceAttached(size) ==
    /\ rz_listening
    /\ rz_surface = Null
    /\ rz_surface' = size
    /\ rz_last' = "attach"
    /\ UNCHANGED <<rz_session, rz_listening, samplerVars, uploadVars, orbitVars, viewerVars>>

\* DicomViewer1.js lines 148-156: the cleanup nulls the camera and renderer
\* refs; the scene content and the camera position die with them
SessionTornDown ==
    /\ rz_session.camera # 0
    /\ rz_session' = [rz_session EXCEPT !.camera = 0, !.renderer = 0]
    /\ rz_last' = "teardown"
    /\ UNCHANGED <<rz_surface, rz_listening, samplerVars, uploadVars, orbitVars, viewerVars>>

\* DicomViewer1.js lines 170-172, part_000 lines 142-144: on unmount the
\* listener is removed and the container leaves the document
ResizeUnmounted ==
    /\ rz_listening
    /\ rz_listening' = FALSE
    /\ rz_surface' = Null
    /\ rz_last' = "unmount"
    /\ UNCHANGED <<rz_session, samplerVars, uploadVars, orbitVars, viewerVars>>

ResizeNext ==
    \/ SessionSetUp
    \/ \E m \in MaxDimensions : VolumeReplaced(m)
    \/ \E size \in SurfaceSizes : WindowResized(size)
    \/ SurfaceDetached
    \/ \E size \in SurfaceSizes : SurfaceAttached(size)
    \/ SessionTornDown
    \/ ResizeUnmounted

SpecResize == ResizeInit /\ [][ResizeNext]_vars

\* The handler can act: camera, renderer and container are all there.
ResizeReady ==
    rz_listening /\ rz_session.camera # 0 /\ rz_session.renderer # 0 /\ rz_surface # Null

\* C21: a resize event sets the camera aspect and the draw-target size from
\* the container's current width and height; a second resize event with the
\* container unchanged leaves the state of the first; with the container,
\* the camera or the renderer missing or torn down it changes nothing and
\* raises nothing; it never changes the scene content or the camera position.
C21_ResizeIdempotentAndSafe ==
    [][ rz_last' = "resize" =>
          /\ rz_session'.raised = "none"
          /\ rz_session'.children = rz_session.children
          /\ rz_session'.cameraZ2 = rz_session.cameraZ2
          /\ rz_session'.camera = rz_session.camera
          /\ rz_session'.renderer = rz_session.renderer
          /\ ResizeReady' =>
               /\ rz_session'.size = rz_surface'
               /\ rz_session'.aspect[1] * rz_surface'[2]
                    = rz_session'.aspect[2] * rz_surface'[1]
          /\ ~ResizeReady' => rz_session' = rz_session
          /\ (rz_last = "resize" /\ rz_surface' = rz_surface) =>
               rz_session' = rz_session ]_vars

\* a second resize event arrived with the container unchanged
C21_Witness ==
    /\ rz_last = "resize"
    /\ ResizeReady
    /\ rz_session.size = rz_surface
    /\ rz_session.aspect = <<3, 2>>
    /\ Len(rz_session.children) = 3

\* a resize event arrived after the session was torn down and the container
\* was gone
C21_WitnessMissing ==
    /\ rz_last = "resize"
    /\ rz_listening
    /\ rz_surface = Null
    /\ rz_session.camera = 0
    /\ rz_session.size # <<0, 0>>

(***************************************************************************)
(* Claims on the frame loop, the mode switches and the requests.           *)
(***************************************************************************)
\* A step that is one tick of a frame loop.
Tick == \E k \in Ids : AnimateFrame1(k) \/ AnimateFrameTDV(k)

\* C22: a tick of a frame loop advances the controller and redraws the
\* scene and does nothing else: every scene keeps its children, the camera,
\* controller and renderer of the session stay the same objects, the camera
\* stays where it is, and nothing is allocated.
C22_TickOnlyRedraws ==
    [][ Tick =>
          /\ children' = children
          /\ <<threeScene, threeRenderer, threeCamera, threeControls>>'
               = <<threeScene, threeRenderer, threeCamera, threeControls>>
          /\ <<scene, camera, renderer, controls, pendingState, cleanupRenderer>>'
               = <<scene, camera, renderer, controls, pendingState, cleanupRenderer>>
          /\ nextId' = nextId
          /\ cameraZ2' = cameraZ2
          /\ canvasParent' = canvasParent
          /\ installs' = installs
          /\ loops' = loops
          /\ raised' = raised
          /\ \A k \in Ids : frame'[k] # frame[k] => frame'[k] = children[k]
          /\ <<mounted, viewMode, slices, volumeData>>'
               = <<mounted, viewMode, slices, volumeData>> ]_vars

\* a tick has drawn a scene holding the lights and a cloud, in either viewer
C22_Witness ==
    /\ lastAnimate # 0
    /\ Len(frame[lastAnimate]) = 3
    /\ frame[lastAnimate] = children[lastAnimate]
    /\ installs[lastAnimate] >= 1

\* C23: in DicomViewer1, once the 2D view is shown the render session is
\* disposed: no canvas is attached to the container and the scene, renderer,
\* camera and controls refs are null.
C23_DisposedIn2D ==
    (app = "DicomViewer1" /\ mounted /\ viewMode = "2d") =>
        /\ \A k \in Ids : canvasParent[k] = Null
        /\ threeScene = 0 /\ threeRenderer = 0
        /\ threeCamera = 0 /\ threeControls = 0

\* the session of a first 3D visit was disposed only on the way back into
\* the 3D view, where the second session was set up
C23_Witness ==
    /\ app = "DicomViewer1" /\ mounted /\ viewMode = "3d"
    /\ 1 \in loops /\ canvasParent[1] = Null
    /\ threeRenderer = 2 /\ canvasParent[2] = Container

\* C24: at most one frame loop is active at any time, across mode switches,
\* uploads and volume changes.
C24_OneLoop == Cardinality(loops) <= 1

\* a tick of the loop of an earlier session, after a later session started
C24_Witness ==
    /\ Cardinality(loops) = 2
    /\ lastAnimate = 1
    /\ frame[2] # <<>>

\* A step of DicomViewer1 that leaves the 2D view for the 3D view while a
\* session of an earlier 3D visit still has its canvas attached.
ReEntry3D ==
    /\ app = "DicomViewer1" /\ mounted
    /\ viewMode = "2d" /\ viewMode' = "3d"
    /\ threeRenderer # 0 /\ canvasParent[threeRenderer] # Null
    /\ Len(slices') > 0

\* A canvas is detached from its container only by the cleanup of the
\* session it belongs to, and removeChild never raises.
DetachOnlyFromParent ==
    /\ raised' # "NotFoundError"
    /\ \A k \in Ids :
         (canvasParent[k] # Null /\ canvasParent'[k] = Null) =>
            /\ canvasParent[k] = Container
            /\ threeRenderer = k /\ threeRenderer' # k

\* C25 (as stated): teardown removes the canvas only from the container that
\* holds it and never raises, in every sequence of mode switches, and on
\* entering 3D again the 3D container is a new element, not the one that
\* holds the canvas of the previous visit.
C25_Original ==
    [][ app = "DicomViewer1" =>
          /\ DetachOnlyFromParent
          /\ ReEntry3D => threeDRef' # canvasParent[threeRenderer] ]_vars

\* C25 (amended): teardown removes the canvas only from the container that
\* holds it and never raises, in every sequence of mode switches; on
\* entering 3D again the ref holds the same container element, the one the
\* canvas of the previous visit is attached to.
C25_Amended ==
    [][ app = "DicomViewer1" =>
          /\ DetachOnlyFromParent
          /\ (ReEntry3D /\ mounted') =>
               /\ threeDRef' = canvasParent[threeRenderer]
               /\ canvasParent'[threeRenderer] = Null ]_vars

\* 3D, then 2D, then 3D again: the cleanup detached the first canvas from
\* the container and the second session is attached to it
C25_Witness ==
    /\ app = "DicomViewer1" /\ mounted /\ viewMode = "3d"
    /\ raised = "none"
    /\ threeDRef = Container
    /\ canvasParent[1] = Null /\ installs[1] >= 1
    /\ threeRenderer = 2 /\ canvasParent[2] = threeDRef

(***************************************************************************)
(* SpecThreeDViewer: the ThreeDViewer component (part_000 lines 6-153)     *)
(* under every sequence of volumeData props: a host renders it while the   *)
(* prop is not null, as line 421 does, and passes a first volume, another  *)
(* volume while it is mounted, or null.                                    *)
(***************************************************************************)
ThreeDViewerInit ==
    /\ app = "ThreeDViewer"
    /\ mounted = TRUE
    /\ viewMode = "3d"
    /\ Viewer1Init
    /\ DicomViewerInit
    /\ ThreeInit
    /\ SamplerIdle
    /\ UploadIdle
    /\ OrbitIdle
    /\ ResizeIdle

\* the host re-renders with another volumeData value (0 is null)
SetVolumeData(vd) ==
    /\ app = "ThreeDViewer" /\ mounted
    /\ vd # volumeData
    /\ RenderDicomViewer("3d", vd)
    /\ UNCHANGED <<app, files, uploadId, loading, processing, processMode,
                   resultImage, error, lastAnimate, viewer1Vars,
                   samplerVars, uploadVars, orbitVars, resizeVars>>

ThreeDViewerNext ==
    \/ \E vd \in {0} \cup DOMAIN Volumes : SetVolumeData(vd)
    \/ ViewerStateRender
    \/ UnmountDicomViewer
    \/ \E k \in Ids : AnimateFrameTDV(k)

SpecThreeDViewer == ThreeDViewerInit /\ [][ThreeDViewerNext]_vars

LightsOf(kids, type) == SelectSeq(kids, LAMBDA c : c.type = type)

\* A step of DicomViewer1 that starts and ends in the 3D view with the
\* session set up before it.
Stays3D ==
    /\ mounted /\ mounted'
    /\ viewMode = "3d" /\ viewMode' = "3d"
    /\ threeScene # 0

\* C27: in DicomViewer1, while the view stays in 3D the scene is set up
\* once: a later run of the effect keeps the scene, camera, renderer and
\* controller, allocates nothing, starts no loop, and only replaces the
\* volume; at most one canvas is attached to the container, and the scene
\* holds each of the two lights exactly once.
C27_SetupOnceIn3D ==
    [][ app = "DicomViewer1" =>
          /\ Stays3D =>
               /\ <<threeScene, threeRenderer, threeCamera, threeControls>>'
                    = <<threeScene, threeRenderer, threeCamera, threeControls>>
               /\ nextId' = nextId
               /\ canvasParent' = canvasParent
               /\ loops' = loops
               /\ \A k \in Ids : k # threeScene => children'[k] = children[k]
               /\ ClearVolume(children'[threeScene]) = ClearVolume(children[threeScene])
               /\ Len(CloudsOf(children'[threeScene])) = 1
          /\ Cardinality({ k \in Ids : canvasParent'[k] # Null }) <= 1
          /\ (mounted' /\ threeScene' # 0) =>
               /\ Len(LightsOf(children'[threeScene'], "AmbientLight")) = 1
               /\ Len(LightsOf(children'[threeScene'], "DirectionalLight")) = 1 ]_vars

\* in the 3D view a second stack arrived and replaced the volume of the one
\* session
C27_Witness ==
    /\ app = "DicomViewer1" /\ mounted /\ viewMode = "3d"
    /\ threeScene = 1 /\ threeRenderer = 1 /\ nextId = 2
    /\ installs[1] = 2
    /\ Len(slices) = 2
    /\ canvasParent[1] = Container

\* The stack setSlices receives when upload u has loaded.
StackOf(u) == SortSlices(LoadedSlices(ViewerUploads[u]))

\* C28: with two uploads of DicomViewer1 overlapping, the stack shown once
\* both have finished is that of the upload started last, whatever the
\* order of completion: when the upload started last has loaded and its
\* stack is shown, the completion of the upload started before it leaves
\* that stack shown.
C28_LatestUploadShown ==
    [][ \A u \in DOMAIN ViewerUploads :
          (UploadLoaded(u) /\ pendingUploads = {u} /\ lastStarted # u
             /\ slices = StackOf(lastStarted) /\ mounted') =>
            slices' = StackOf(lastStarted) ]_vars

\* the upload started last has loaded and is shown while the one started
\* before it is still loading
C28_Witness ==
    /\ app = "DicomViewer1" /\ mounted
    /\ pendingUploads = {1} /\ lastStarted = 2
    /\ slices = StackOf(2)

\* A request of DicomViewer settled: the busy flag is cleared; a failure is
\* recorded in error, and a failed processFiles leaves no result.
SettledFlagsAndFailure ==
    /\ \A outcome \in {"ok", "network", "notok"} :
         (UploadSettled(outcome) /\ mounted') =>
            /\ loading' = FALSE
            /\ outcome # "ok" => error' # Null
    /\ \A outcome \in {"ok", "network", "notok", "nodata"} : \A vd \in DOMAIN Volumes :
         (ProcessSettled(outcome, vd) /\ mounted') =>
            /\ processing' = FALSE
            /\ outcome # "ok" =>
                 /\ error' # Null
                 /\ resultImage' = FALSE
                 /\ volumeData' = 0

\* C29 (as stated): when uploadFiles or processFiles finishes, its busy flag
\* is false, error is non-null exactly when the request failed, and after a
\* failed processFiles resultImage and volumeData are both null.
C29_Original ==
    [][ /\ SettledFlagsAndFailure
        /\ (UploadSettled("ok") /\ mounted') => error' = Null
        /\ \A vd \in DOMAIN Volumes :
             (ProcessSettled("ok", vd) /\ mounted') => error' = Null ]_vars

\* C29 (amended): when uploadFiles or processFiles finishes, its busy flag
\* is false, error is non-null if the request failed and is left as it was
\* if the request succeeded, and after a failed processFiles resultImage and
\* volumeData are both null.
C29_Amended ==
    [][ /\ SettledFlagsAndFailure
        /\ (UploadSettled("ok") /\ mounted') => error' = error
        /\ \A vd \in DOMAIN Volumes :
             (ProcessSettled("ok", vd) /\ mounted') => error' = error ]_vars

\* a processing request failed after an upload succeeded: both flags are
\* clear, the processing error is recorded and there is no result
C29_Witness ==
    /\ app = "DicomViewer" /\ mounted
    /\ ~loading /\ ~processing /\ processMode = "none"
    /\ uploadId = 1
    /\ error = "Error processing files"
    /\ ~resultImage /\ volumeData = 0

====
